---- MODULE Spec2Model ----
(***************************************************************************)
(* The WFE load generator (package wfe): the State object, its             *)
(* registration store and nonce pool, Snapshot/Restore, executePlan,       *)
(* warmup, Run with its sending loop, and sendCall.                        *)
(***************************************************************************)
EXTENDS Integers, Sequences, FiniteSets, TLC

\* ------------------------------------------------------------------ bounds

\* sendCall goroutines the sending loop may spawn in one run
MaxCalls == 2
\* the largest warmupWorkers given to New
MaxWorkers == 2
\* the largest warmupRegs and maxRegs given to New
MaxTarget == 1

\* goroutines that call Nonce() concurrently
MaxTakers == 2
\* Replay-Nonce values the server issues in one run
MaxNonces == 3

\* registrations a store holds in a run of Snapshot and Restore
MaxStore == 2
\* authorizations of one registration in a run of Snapshot and Restore
MaxAuths == 1
\* certificates of one registration in a run of Snapshot and Restore
MaxCerts == 2

\* the largest weight of a profile handed to weightedCall
MaxWeight == 4

\* goroutines that take the locks of the store and of a registration
MaxLockTasks == 2

\* ------------------------------------------------------------------ values

\* RSA private keys as rsa.GenerateKey returns them (tiny primes); the n-th
\* key generated in a run is GenKey(n), a fresh key each time while they last
KeyList ==
    << [N |-> 33, E |-> 3, D |-> 7, P |-> 3, Q |-> 11],
       [N |-> 55, E |-> 3, D |-> 27, P |-> 5, Q |-> 11],
       [N |-> 51, E |-> 3, D |-> 11, P |-> 3, Q |-> 17],
       [N |-> 85, E |-> 3, D |-> 43, P |-> 5, Q |-> 17],
       [N |-> 187, E |-> 3, D |-> 107, P |-> 11, Q |-> 17],
       [N |-> 69, E |-> 3, D |-> 15, P |-> 3, Q |-> 23] >>

GenKey(n) == KeyList[(n % Len(KeyList)) + 1]

\* the run plans given to New: sequences of RatePeriod
Plans ==
    { <<>>,
      << [For |-> 1, Rate |-> 5], [For |-> 1, Rate |-> 50] >> }

\* the base rate given to New, when it is not 0
BaseRate == 10

NoProc == "nil"

\* there is no file (yet) under the snapshot's filename
NoFile == [missing |-> TRUE]

\* a file whose content json.Unmarshal cannot decode into a snapshot
Undecodable == [garbage |-> TRUE]

VARIABLES
    regs,            \* s.regs: the registrations, in append order
    maxRegs,         \* s.maxRegs
    warmupRegs,      \* s.warmupRegs
    warmupWorkers,   \* s.warmupWorkers
    runPlan,         \* s.runPlan
    throughput,      \* s.throughput
    challSrvProc,    \* s.challSrvProc: NoProc, "running" or "killed"
    wg,              \* s.wg: the WaitGroup counter
    latStopped,      \* s.callLatency.Stopped has been set
    dontRunChallSrv, \* Run's argument
    startErr,        \* cmd.Start() returned an error in Run
    runPC,           \* where Run is
    workerPC,        \* warmup: where each worker goroutine is
    planPC,          \* where the executePlan goroutine is
    planIdx,         \* executePlan: index of the next RatePeriod
    stored,          \* the rates executePlan has stored, in order
    loopPC,          \* where the sending-loop goroutine is
    stop,            \* Run: messages buffered in the stop channel
    stopSent,        \* Run has executed stop <- true
    spawned,         \* number of go s.sendCall() executed
    calls,           \* the sendCall goroutines
    noncePool,       \* s.noncePool
    issued,          \* Replay-Nonce values the server has issued so far
    nonceCalls,      \* the goroutines calling Nonce()
    handed,          \* what the Nonce() calls returned, in order
    added,           \* the arguments of the addNonce calls, in order
    file,            \* the snapshot file: NoFile or the document written
    snapshotted,     \* the registrations the last Snapshot call went through
    fresh,           \* the regs of a second State, made by New to Restore into
    restoreErr,      \* what the last Restore call returned: "nil" or "error"
    wcSetup,         \* weightedCall: its argument setup
    wcDraw,          \* weightedCall: the value of mrand.Intn(n)
    wcResult,        \* weightedCall: the action returned
    locks,           \* s.rMu and a registration's iMu: who holds and who waits
    lockTask         \* the goroutines taking these locks: what each runs and where it is

cfgVars  == <<maxRegs, warmupRegs, warmupWorkers, runPlan>>
runVars  == <<challSrvProc, latStopped, dontRunChallSrv, startErr, runPC>>
warmVars == <<workerPC>>
planVars == <<planPC, planIdx, stored>>
loopVars == <<loopPC, stop, stopSent, spawned>>

nonceVars == <<noncePool, issued, nonceCalls, handed, added>>

persistVars == <<file, snapshotted, fresh, restoreErr>>

selectVars == <<wcSetup, wcDraw, wcResult>>

lockVars == <<locks, lockTask>>

vars == <<regs, cfgVars, throughput, wg, runVars, warmVars, planVars, loopVars, calls,
          nonceVars, persistVars, selectVars, lockVars>>

Workers == 1..MaxWorkers
CallIds == 1..MaxCalls

Takers == 1..MaxTakers

\* a goroutine that is not inside Nonce()
NoNonceCall == [pc |-> "idle", path |-> "none", probes |-> 0]

\* a goroutine that was never started
NoCall == [pc |-> "none", canCreate |-> FALSE, reg |-> 0, action |-> "none"]

\* ------------------------------------------------------------------ helpers

IsPrefix(a, b) == Len(a) <= Len(b) /\ SubSeq(b, 1, Len(a)) = a

\* a panic in any goroutine ends the whole process
Alive ==
    /\ runPC # "panic"
    /\ loopPC # "panic"
    /\ \A i \in CallIds : calls[i].pc # "panic"

\* ------------------------------------------------------------------ registrations

NewReg(key) == [key |-> key, auths |-> <<>>, certs |-> <<>>]

\* addReg putting the registration in front of the others
addRegInFront(rs, reg) == <<reg>> \o rs

\* addReg: s.regs = append(s.regs, reg), under s.rMu.Lock
addReg(rs, reg) == Append(rs, reg)

\* ------------------------------------------------------------------ Init

\* the State New returns, and no goroutine started
InitState ==
    /\ regs = <<>>
    /\ maxRegs \in {-1, 0, 1, MaxTarget}
    /\ warmupRegs \in (IF maxRegs < 0 THEN {0} ELSE {0, MaxTarget})
    /\ warmupWorkers \in (IF warmupRegs = 0 THEN {1} ELSE {0, 1, MaxWorkers})
    /\ runPlan \in Plans
    /\ throughput \in {0, BaseRate}
    /\ challSrvProc = NoProc
    /\ wg = 0
    /\ latStopped = FALSE
    /\ dontRunChallSrv = FALSE
    /\ startErr = FALSE
    /\ runPC = "idle"
    /\ workerPC = [w \in Workers |-> "none"]
    /\ planPC = "none"
    /\ planIdx = 1
    /\ stored = <<>>
    /\ loopPC = "none"
    /\ stop = 0
    /\ stopSent = FALSE
    /\ spawned = 0
    /\ calls = [i \in CallIds |-> NoCall]
    /\ noncePool = <<>>
    /\ issued = 0
    /\ nonceCalls = [t \in Takers |-> NoNonceCall]
    /\ handed = <<>>
    /\ added = <<>>
    /\ file = NoFile
    /\ snapshotted = <<>>
    /\ fresh = <<>>
    /\ restoreErr = "none"

\* weightedCall has not been called on its own
NoSelect ==
    /\ wcSetup = <<>>
    /\ wcDraw = 0
    /\ wcResult = "none"

LockNames == {"rMu", "iMu"}
LockTasks == 1..MaxLockTasks

\* a sync.RWMutex nobody holds or waits for
FreeLock == [writer |-> 0, readers |-> {}, waiting |-> {}]

\* no goroutine is followed through its lock calls
NoLockTasks ==
    /\ locks = [l \in LockNames |-> FreeLock]
    /\ lockTask = [t \in LockTasks |-> [kind |-> "none", pc |-> 1]]

Init == InitState /\ NoSelect /\ NoLockTasks

\* the State of New with no cap, no warmup and no run plan: the nonce pool
\* and Snapshot/Restore read none of these
PlainInit ==
    /\ Init
    /\ maxRegs = 0
    /\ warmupRegs = 0
    /\ warmupWorkers = 1
    /\ runPlan = <<>>
    /\ throughput = BaseRate

\* ------------------------------------------------------------------ executePlan

\* executePlan ranging over the plan from its last RatePeriod to its first
PlanStepReversed ==
    /\ Alive
    /\ planPC = "run"
    /\ IF planIdx <= Len(runPlan)
       THEN /\ throughput' = runPlan[Len(runPlan) - planIdx + 1].Rate
            /\ stored' = Append(stored, runPlan[Len(runPlan) - planIdx + 1].Rate)
            /\ planIdx' = planIdx + 1
            /\ planPC' = planPC
       ELSE /\ planPC' = "done"
            /\ UNCHANGED <<throughput, stored, planIdx>>
    /\ UNCHANGED <<regs, cfgVars, wg, runVars, warmVars, loopVars, calls>>
    /\ UNCHANGED <<nonceVars, persistVars, selectVars, lockVars>>

\* one iteration of the range loop: store the rate, then sleep p.For
PlanStep ==
    /\ Alive
    /\ planPC = "run"
    /\ IF planIdx <= Len(runPlan)
       THEN /\ throughput' = runPlan[planIdx].Rate
            /\ stored' = Append(stored, runPlan[planIdx].Rate)
            /\ planIdx' = planIdx + 1
            /\ planPC' = planPC
       ELSE /\ planPC' = "done"
            /\ UNCHANGED <<throughput, stored, planIdx>>
    /\ UNCHANGED <<regs, cfgVars, wg, runVars, warmVars, loopVars, calls>>
    /\ UNCHANGED <<nonceVars, persistVars, selectVars, lockVars>>

\* ------------------------------------------------------------------ actions of a registration

\* newRegistration: generate a key, register it with the server and, when
\* the server accepts, append the registration through addReg; a failed
\* attempt changes nothing
newRegistration ==
    \/ regs' = addReg(regs, NewReg(GenKey(Len(regs))))
    \/ regs' = regs

\* newAuthorization: on success the authorization id joins reg.auths
newAuthorization(r) ==
    \/ regs' = [regs EXCEPT ![r].auths = Append(@, Len(@) + 1)]
    \/ regs' = regs

\* newCertificate: on success the certificate id joins reg.certs
newCertificate(r) ==
    \/ regs' = [regs EXCEPT ![r].certs = Append(@, Len(@) + 1)]
    \/ regs' = regs

\* revokeCertificate: asks the server to revoke one of reg.certs
revokeCertificate(r) == regs' = regs

\* ------------------------------------------------------------------ warmup

\* a worker leaving the loop one registration before the target
WorkerCheckOneShort(w) ==
    /\ Alive
    /\ runPC = "warmup"
    /\ workerPC[w] = "check"
    /\ workerPC' = [workerPC EXCEPT ![w] =
                       IF Len(regs) + 1 >= warmupRegs THEN "done" ELSE "create"]
    /\ UNCHANGED <<regs, cfgVars, throughput, wg, runVars,
                   planVars, loopVars, calls>>
    /\ UNCHANGED <<nonceVars, persistVars, selectVars, lockVars>>

\* a worker leaving the loop only once the store is above the target
WorkerCheckAboveTarget(w) ==
    /\ Alive
    /\ runPC = "warmup"
    /\ workerPC[w] = "check"
    /\ workerPC' = [workerPC EXCEPT ![w] =
                       IF Len(regs) > warmupRegs THEN "done" ELSE "create"]
    /\ UNCHANGED <<regs, cfgVars, throughput, wg, runVars,
                   planVars, loopVars, calls>>
    /\ UNCHANGED <<nonceVars, persistVars, selectVars, lockVars>>

\* a worker's check of len(s.regs) against s.warmupRegs under s.rMu.RLock
WorkerCheck(w) ==
    /\ Alive
    /\ runPC = "warmup"
    /\ workerPC[w] = "check"
    /\ workerPC' = [workerPC EXCEPT ![w] =
                       IF Len(regs) >= warmupRegs THEN "done" ELSE "create"]
    /\ UNCHANGED <<regs, cfgVars, throughput, wg, runVars,
                   planVars, loopVars, calls>>
    /\ UNCHANGED <<nonceVars, persistVars, selectVars, lockVars>>

\* a worker's s.newRegistration(nil)
WorkerCreate(w) ==
    /\ Alive
    /\ runPC = "warmup"
    /\ workerPC[w] = "create"
    /\ newRegistration
    /\ workerPC' = [workerPC EXCEPT ![w] = "check"]
    /\ UNCHANGED <<cfgVars, throughput, wg, runVars,
                   planVars, loopVars, calls>>
    /\ UNCHANGED <<nonceVars, persistVars, selectVars, lockVars>>

\* wg.Wait() of warmup returns once every worker has called wg.Done();
\* warmup returns to Run
WarmupJoin ==
    /\ Alive
    /\ runPC = "warmup"
    /\ \A w \in 1..warmupWorkers : workerPC[w] = "done"
    /\ runPC' = "startChall"
    /\ UNCHANGED <<regs, cfgVars, throughput, wg, challSrvProc, latStopped,
                   dontRunChallSrv, startErr, workerPC,
                   planVars, loopVars, calls>>
    /\ UNCHANGED <<nonceVars, persistVars, selectVars, lockVars>>

\* ------------------------------------------------------------------ Run

\* Run is called: callLatency.Started, and warmup when the store is below target
RunBegin ==
    /\ runPC = "idle"
    /\ \E d \in BOOLEAN : dontRunChallSrv' = d
    /\ IF warmupRegs > Len(regs)
       THEN /\ runPC' = "warmup"
            /\ workerPC' = [w \in Workers |->
                               IF w <= warmupWorkers THEN "check" ELSE "none"]
       ELSE /\ runPC' = "startChall"
            /\ UNCHANGED workerPC
    /\ UNCHANGED <<regs, cfgVars, throughput, wg, challSrvProc, latStopped,
                   startErr, planVars, loopVars, calls>>
    /\ UNCHANGED <<nonceVars, persistVars, selectVars, lockVars>>

\* Run going on to the run plan and the sending loop although cmd.Start() failed
RunStartChallIgnoringErr ==
    /\ Alive
    /\ runPC = "startChall"
    /\ IF dontRunChallSrv
       THEN runPC' = "startPlan" /\ UNCHANGED <<challSrvProc, startErr>>
       ELSE \/ /\ challSrvProc' = "running"
               /\ runPC' = "startPlan"
               /\ UNCHANGED startErr
            \/ /\ startErr' = TRUE
               /\ runPC' = "startPlan"
               /\ UNCHANGED challSrvProc
    /\ UNCHANGED <<regs, cfgVars, throughput, wg, latStopped, dontRunChallSrv,
                   warmVars, planVars, loopVars, calls>>
    /\ UNCHANGED <<nonceVars, persistVars, selectVars, lockVars>>

\* if !dontRunChallSrv: cmd.Start(); return err on failure
RunStartChall ==
    /\ Alive
    /\ runPC = "startChall"
    /\ IF dontRunChallSrv
       THEN runPC' = "startPlan" /\ UNCHANGED <<challSrvProc, startErr>>
       ELSE \/ /\ challSrvProc' = "running"
               /\ runPC' = "startPlan"
               /\ UNCHANGED startErr
            \/ /\ startErr' = TRUE
               /\ runPC' = "failed"
               /\ UNCHANGED challSrvProc
    /\ UNCHANGED <<regs, cfgVars, throughput, wg, latStopped, dontRunChallSrv,
                   warmVars, planVars, loopVars, calls>>
    /\ UNCHANGED <<nonceVars, persistVars, selectVars, lockVars>>

\* if len(s.runPlan) > 0 { go s.executePlan() }
RunStartPlan ==
    /\ Alive
    /\ runPC = "startPlan"
    /\ planPC' = IF Len(runPlan) > 0 THEN "run" ELSE planPC
    /\ runPC' = "startLoop"
    /\ UNCHANGED <<regs, cfgVars, throughput, wg, challSrvProc, latStopped,
                   dontRunChallSrv, startErr, warmVars, planIdx, stored,
                   loopVars, calls>>
    /\ UNCHANGED <<nonceVars, persistVars, selectVars, lockVars>>

\* stop := make(chan bool, 1); go func() { sending loop }(); time.Sleep(s.runtime)
RunStartLoop ==
    /\ Alive
    /\ runPC = "startLoop"
    /\ loopPC' = "select"
    /\ runPC' = "sleep"
    /\ UNCHANGED <<regs, cfgVars, throughput, wg, challSrvProc, latStopped,
                   dontRunChallSrv, startErr, warmVars, planVars,
                   stop, stopSent, spawned, calls>>
    /\ UNCHANGED <<nonceVars, persistVars, selectVars, lockVars>>

\* the runtime has elapsed: stop <- true (the channel's buffer holds it)
RunSendStop ==
    /\ Alive
    /\ runPC = "sleep"
    /\ stop' = stop + 1
    /\ stopSent' = TRUE
    /\ runPC' = "wait"
    /\ UNCHANGED <<regs, cfgVars, throughput, wg, challSrvProc, latStopped,
                   dontRunChallSrv, startErr, warmVars, planVars,
                   loopPC, spawned, calls>>
    /\ UNCHANGED <<nonceVars, persistVars, selectVars, lockVars>>

\* s.wg.Wait() returns when the counter is zero
RunWait ==
    /\ Alive
    /\ runPC = "wait"
    /\ wg = 0
    /\ runPC' = "kill"
    /\ UNCHANGED <<regs, cfgVars, throughput, wg, challSrvProc, latStopped,
                   dontRunChallSrv, startErr, warmVars, planVars, loopVars, calls>>
    /\ UNCHANGED <<nonceVars, persistVars, selectVars, lockVars>>

\* err := s.challSrvProc.Kill(): a nil *os.Process is dereferenced (panic);
\* otherwise the process is signalled, and an error is only printed
RunKill ==
    /\ Alive
    /\ runPC = "kill"
    /\ IF challSrvProc = NoProc
       THEN runPC' = "panic" /\ UNCHANGED challSrvProc
       ELSE /\ \/ challSrvProc' = "killed"
               \/ challSrvProc' = challSrvProc
            /\ runPC' = "finish"
    /\ UNCHANGED <<regs, cfgVars, throughput, wg, latStopped, dontRunChallSrv,
                   startErr, warmVars, planVars, loopVars, calls>>
    /\ UNCHANGED <<nonceVars, persistVars, selectVars, lockVars>>

\* s.callLatency.Stopped = time.Now(); return nil
RunFinish ==
    /\ Alive
    /\ runPC = "finish"
    /\ latStopped' = TRUE
    /\ runPC' = "done"
    /\ UNCHANGED <<regs, cfgVars, throughput, wg, challSrvProc, dontRunChallSrv,
                   startErr, warmVars, planVars, loopVars, calls>>
    /\ UNCHANGED <<nonceVars, persistVars, selectVars, lockVars>>

\* ------------------------------------------------------------------ the sending loop

\* select { case <-stop: return; default: ... }
LoopSelect ==
    /\ Alive
    /\ loopPC = "select"
    /\ IF stop > 0
       THEN stop' = stop - 1 /\ loopPC' = "stopped"
       ELSE stop' = stop /\ loopPC' = "spawn"
    /\ UNCHANGED <<regs, cfgVars, throughput, wg, runVars, warmVars, planVars,
                   stopSent, spawned, calls>>
    /\ UNCHANGED <<nonceVars, persistVars, selectVars, lockVars>>

\* the default case: s.wg.Add(1); go s.sendCall(); time.Sleep(second / throughput),
\* where the integer division panics on a throughput of 0
LoopSpawn ==
    /\ Alive
    /\ loopPC = "spawn"
    /\ spawned < MaxCalls
    /\ wg' = wg + 1
    /\ spawned' = spawned + 1
    /\ calls' = [calls EXCEPT ![spawned + 1].pc = "cap"]
    /\ loopPC' = IF throughput = 0 THEN "panic" ELSE "select"
    /\ UNCHANGED <<regs, cfgVars, throughput, runVars, warmVars, planVars,
                   stop, stopSent>>
    /\ UNCHANGED <<nonceVars, persistVars, selectVars, lockVars>>

\* ------------------------------------------------------------------ sendCall

RECURSIVE Repeat(_, _)
Repeat(x, n) == IF n = 0 THEN <<>> ELSE <<x>> \o Repeat(x, n - 1)

\* the choices map of weightedCall as a sequence: choices[i+n] = pp.action
RECURSIVE Choices(_)
Choices(setup) ==
    IF setup = <<>> THEN <<>>
    ELSE Repeat(Head(setup).action, Head(setup).prob) \o Choices(Tail(setup))

\* weightedCall returning the choice after the one drawn
weightedCallNextChoice(setup, k) ==
    IF Len(Choices(setup)) = 0 THEN "nil"
    ELSE Choices(setup)[((k + 1) % Len(Choices(setup))) + 1]

\* weightedCall with mrand.Intn(n) = k; "nil" when there are no choices
weightedCall(setup, k) ==
    IF Len(Choices(setup)) = 0 THEN "nil" ELSE Choices(setup)[k + 1]

\* sendCall offering newCertificate for every picked registration
ActionListNoAuthNeeded(canCreate, r) ==
    (IF canCreate THEN << [prob |-> 1, action |-> "newRegistration"] >> ELSE <<>>)
    \o (IF r # 0
        THEN << [prob |-> 3, action |-> "newAuthorization"] >>
             \o << [prob |-> 4, action |-> "newCertificate"] >>
             \o (IF Len(regs[r].certs) > 0
                 THEN << [prob |-> 2, action |-> "revokeCertificate"] >> ELSE <<>>)
        ELSE <<>>)

\* the actionList sendCall builds for a goroutine's canCreate and picked reg
ActionList(canCreate, r) ==
    (IF canCreate THEN << [prob |-> 1, action |-> "newRegistration"] >> ELSE <<>>)
    \o (IF r # 0
        THEN << [prob |-> 3, action |-> "newAuthorization"] >>
             \o (IF Len(regs[r].auths) > 0
                 THEN << [prob |-> 4, action |-> "newCertificate"] >> ELSE <<>>)
             \o (IF Len(regs[r].certs) > 0
                 THEN << [prob |-> 2, action |-> "revokeCertificate"] >> ELSE <<>>)
        ELSE <<>>)

\* s.maxRegs == 0 || len(s.regs) < s.maxRegs, under s.rMu.RLock
CallCap(i) ==
    /\ Alive
    /\ calls[i].pc = "cap"
    /\ calls' = [calls EXCEPT ![i].canCreate = (maxRegs = 0 \/ Len(regs) < maxRegs),
                              ![i].pc = "pick"]
    /\ UNCHANGED <<regs, cfgVars, throughput, wg, runVars, warmVars, planVars, loopVars>>
    /\ UNCHANGED <<nonceVars, persistVars, selectVars, lockVars>>

\* getReg: nil, false on an empty store, else s.regs[mrand.Intn(len)]
getReg(i) ==
    /\ Alive
    /\ calls[i].pc = "pick"
    /\ IF Len(regs) = 0
       THEN calls' = [calls EXCEPT ![i].reg = 0, ![i].pc = "look"]
       ELSE \E r \in 1..Len(regs) :
                calls' = [calls EXCEPT ![i].reg = r, ![i].pc = "look"]
    /\ UNCHANGED <<regs, cfgVars, throughput, wg, runVars, warmVars, planVars, loopVars>>
    /\ UNCHANGED <<nonceVars, persistVars, selectVars, lockVars>>

\* the reads of reg.auths and reg.certs under reg.iMu.RLock, then the draw
\* of weightedCall; calling the nil function it returns for no choices panics
CallLook(i) ==
    /\ Alive
    /\ calls[i].pc = "look"
    /\ LET list == ActionList(calls[i].canCreate, calls[i].reg)
           n == Len(Choices(list))
       IN IF n = 0
          THEN calls' = [calls EXCEPT ![i].action = "nil", ![i].pc = "panic"]
          ELSE \E k \in 0..(n - 1) :
                   calls' = [calls EXCEPT ![i].action = weightedCall(list, k),
                                          ![i].pc = "act"]
    /\ UNCHANGED <<regs, cfgVars, throughput, wg, runVars, warmVars, planVars, loopVars>>
    /\ UNCHANGED <<nonceVars, persistVars, selectVars, lockVars>>

\* the chosen action runs on reg, then s.wg.Done()
CallAct(i) ==
    /\ Alive
    /\ calls[i].pc = "act"
    /\ CASE calls[i].action = "newRegistration" -> newRegistration
         [] calls[i].action = "newAuthorization" -> newAuthorization(calls[i].reg)
         [] calls[i].action = "newCertificate" -> newCertificate(calls[i].reg)
         [] calls[i].action = "revokeCertificate" -> revokeCertificate(calls[i].reg)
    /\ wg' = wg - 1
    /\ calls' = [calls EXCEPT ![i] = [NoCall EXCEPT !.pc = "done"]]
    /\ UNCHANGED <<cfgVars, throughput, runVars, warmVars, planVars, loopVars>>
    /\ UNCHANGED <<nonceVars, persistVars, selectVars, lockVars>>

\* ------------------------------------------------------------------ the nonce pool

engineVars == <<regs, cfgVars, throughput, wg, runVars, warmVars, planVars, loopVars, calls>>

\* a panic in a goroutine calling Nonce() ends the process as well
NonceAlive == \A t \in Takers : nonceCalls[t].pc # "panic"

\* addNonce putting the nonce in front of the pool
addNonceInFront(pool, nonce) == <<nonce>> \o pool

\* addNonce: s.noncePool = append(s.noncePool, nonce), under s.nMu.Lock
addNonce(pool, nonce) == Append(pool, nonce)

\* the pool Nonce() leaves behind when it forgets to drop the nonce it returns
PoolAfterPopKept(pool) == pool

\* the pool Nonce() leaves behind: s.noncePool = s.noncePool[1:]
PoolAfterPop(pool) == Tail(pool)

\* post: a response of the server carries a Replay-Nonce header, which goes
\* to the pool through addNonce
post ==
    /\ NonceAlive
    /\ issued < MaxNonces
    /\ issued' = issued + 1
    /\ noncePool' = addNonce(noncePool, issued + 1)
    /\ added' = Append(added, issued + 1)
    /\ UNCHANGED <<nonceCalls, handed>>
    /\ UNCHANGED <<engineVars, persistVars, selectVars, lockVars>>

\* Nonce(): the test len(s.noncePool) == 0 under s.nMu.RLock
NonceCheck(t) ==
    /\ NonceAlive
    /\ nonceCalls[t].pc = "idle"
    /\ nonceCalls' = [nonceCalls EXCEPT ![t] =
           IF Len(noncePool) = 0
           THEN [pc |-> "head", path |-> "head", probes |-> 0]
           ELSE [pc |-> "pop", path |-> "pool", probes |-> 0]]
    /\ UNCHANGED <<noncePool, issued, handed, added>>
    /\ UNCHANGED <<engineVars, persistVars, selectVars, lockVars>>

\* Nonce() on an empty pool: one HEAD of the directory; the nonce of the
\* response is returned, an error or a missing header returns ""
NonceHead(t) ==
    /\ NonceAlive
    /\ nonceCalls[t].pc = "head"
    /\ \/ /\ issued < MaxNonces
          /\ issued' = issued + 1
          /\ handed' = Append(handed, [nonce |-> issued + 1, from |-> "head"])
       \/ UNCHANGED <<issued, handed>>
    /\ nonceCalls' = [nonceCalls EXCEPT ![t].pc = "idle", ![t].probes = @ + 1]
    /\ UNCHANGED <<noncePool, added>>
    /\ UNCHANGED <<engineVars, persistVars, selectVars, lockVars>>

\* Nonce() on a pool it saw non-empty: under s.nMu.Lock, s.noncePool[0] is
\* returned and dropped; the index is out of range (a panic) when the pool
\* was emptied since the test
NoncePop(t) ==
    /\ NonceAlive
    /\ nonceCalls[t].pc = "pop"
    /\ IF Len(noncePool) = 0
       THEN /\ nonceCalls' = [nonceCalls EXCEPT ![t].pc = "panic"]
            /\ UNCHANGED <<noncePool, handed>>
       ELSE /\ handed' = Append(handed, [nonce |-> noncePool[1], from |-> "pool"])
            /\ noncePool' = PoolAfterPop(noncePool)
            /\ nonceCalls' = [nonceCalls EXCEPT ![t].pc = "idle"]
    /\ UNCHANGED <<issued, added>>
    /\ UNCHANGED <<engineVars, persistVars, selectVars, lockVars>>

NonceNext ==
    \/ post
    \/ \E t \in Takers : NonceCheck(t)
    \/ \E t \in Takers : NonceHead(t)
    \/ \E t \in Takers : NoncePop(t)

NonceSpec == PlainInit /\ [][NonceNext]_vars

\* ------------------------------------------------------------------ Snapshot and Restore

\* x509.MarshalPKCS1PrivateKey: version 0, modulus, exponents and primes
\* (the CRT values are recomputed from these by Precompute)
MarshalPKCS1PrivateKey(key) == <<0, key.N, key.E, key.D, key.P, key.Q>>

\* rsa.PrivateKey.Validate for a key of two primes
ValidKey(key) ==
    /\ key.P > 1
    /\ key.Q > 1
    /\ key.P * key.Q = key.N
    /\ (key.D * key.E) % (key.P - 1) = 1
    /\ (key.D * key.E) % (key.Q - 1) = 1

\* x509.ParsePKCS1PrivateKey: the key, or an error for bytes that are no
\* PKCS#1 key, an unsupported version, a value not positive or an invalid key
ParsePKCS1PrivateKey(raw) ==
    IF Len(raw) # 6 THEN [err |-> TRUE]
    ELSE IF raw[1] > 1 THEN [err |-> TRUE]
    ELSE IF \E i \in 2..6 : raw[i] <= 0 THEN [err |-> TRUE]
    ELSE LET key == [N |-> raw[2], E |-> raw[3], D |-> raw[4],
                     P |-> raw[5], Q |-> raw[6]]
         IN IF ValidKey(key) THEN [err |-> FALSE, key |-> key]
            ELSE [err |-> TRUE]

\* encoding/json of a []string or a slice of structs: a nil slice is null
JSONList(list) == IF list = <<>> THEN [null |-> TRUE] ELSE [array |-> list]
ListOfJSON(j) == IF "null" \in DOMAIN j THEN <<>> ELSE j.array

\* encoding/json of a []byte: a base64 string
JSONBytes(bytes) == [base64 |-> bytes]
BytesOfJSON(j) == j.base64

\* Snapshot's rawRegistration of a registration, leaving the certs out
RawRegistrationNoCerts(r) ==
    [certs |-> JSONList(<<>>), rawKey |-> JSONBytes(MarshalPKCS1PrivateKey(r.key))]

\* Snapshot's rawRegistration of a registration, as json.Marshal writes it
RawRegistration(r) ==
    [certs |-> JSONList(r.certs), rawKey |-> JSONBytes(MarshalPKCS1PrivateKey(r.key))]

\* the document Snapshot writes for the registrations rs
SnapshotDocument(rs) ==
    [Registrations |-> JSONList([i \in 1..Len(rs) |-> RawRegistration(rs[i])])]

\* Restore's range loop returning at the first record whose key does not parse
RECURSIVE RestoreRecordsUntilBad(_, _)
RestoreRecordsUntilBad(rs, records) ==
    IF records = <<>> THEN rs
    ELSE LET r == Head(records)
             parsed == ParsePKCS1PrivateKey(BytesOfJSON(r.rawKey))
         IN IF parsed.err
            THEN rs
            ELSE RestoreRecordsUntilBad(
                     Append(rs, [key |-> parsed.key, auths |-> <<>>,
                                 certs |-> ListOfJSON(r.certs)]),
                     Tail(records))

\* Restore's range loop over the records: a record whose key does not parse
\* is skipped, any other is appended with its certs and no auths
RECURSIVE RestoreRecords(_, _)
RestoreRecords(rs, records) ==
    IF records = <<>> THEN rs
    ELSE LET r == Head(records)
             parsed == ParsePKCS1PrivateKey(BytesOfJSON(r.rawKey))
         IN IF parsed.err
            THEN RestoreRecords(rs, Tail(records))
            ELSE RestoreRecords(
                     Append(rs, [key |-> parsed.key, auths |-> <<>>,
                                 certs |-> ListOfJSON(r.certs)]),
                     Tail(records))

\* the regs of a State after Restore(filename): unchanged when the file
\* cannot be read or decoded, else the old regs followed by those restored
RestoredRegs(rs, content) ==
    IF content = NoFile \/ content = Undecodable THEN rs
    ELSE RestoreRecords(rs, ListOfJSON(content.Registrations))

\* what Restore(filename) returns: the error of ioutil.ReadFile or of
\* json.Unmarshal, else nil
RestoreReturn(content) ==
    IF content = NoFile \/ content = Undecodable THEN "error" ELSE "nil"

\* the records of files that Snapshot did not write: a registration with a
\* certificate, one without, bytes that are no PKCS#1 key, and a key whose
\* modulus is not the product of its primes
ForeignRecord ==
    [ withCert |-> RawRegistration([key |-> KeyList[5], auths |-> <<>>, certs |-> <<1>>]),
      plain    |-> RawRegistration([key |-> KeyList[6], auths |-> <<>>, certs |-> <<>>]),
      noKey    |-> [certs |-> JSONList(<<>>), rawKey |-> JSONBytes(<<7>>)],
      badKey   |-> [certs |-> JSONList(<<1>>),
                    rawKey |-> JSONBytes(<<0, 34, 3, 7, 3, 11>>)] ]

\* files under the snapshot's filename that Snapshot did not write
ForeignFiles ==
    { Undecodable,
      [Registrations |-> JSONList(<<>>)],
      [Registrations |-> JSONList(<< ForeignRecord.noKey >>)],
      [Registrations |-> JSONList(<< ForeignRecord.badKey, ForeignRecord.plain >>)],
      [Registrations |-> JSONList(<< ForeignRecord.withCert, ForeignRecord.noKey,
                                     ForeignRecord.plain >>)] }

\* the file Restore is given was written by something else
WriteFile ==
    /\ file = NoFile
    /\ file' \in ForeignFiles
    /\ UNCHANGED <<snapshotted, fresh, restoreErr, engineVars, nonceVars, selectVars, lockVars>>

\* Snapshot(filename): under s.rMu.Lock, the document of s.regs is written
Snapshot ==
    /\ file' = SnapshotDocument(regs)
    /\ snapshotted' = regs
    /\ UNCHANGED <<fresh, restoreErr, engineVars, nonceVars, selectVars, lockVars>>

\* Restore(filename) on the State of the run
Restore ==
    /\ Len(RestoredRegs(regs, file)) <= MaxStore
    /\ regs' = RestoredRegs(regs, file)
    /\ restoreErr' = RestoreReturn(file)
    /\ UNCHANGED <<cfgVars, throughput, wg, runVars, warmVars, planVars, loopVars, calls>>
    /\ UNCHANGED <<nonceVars, file, snapshotted, fresh, selectVars, lockVars>>

\* Restore(filename) on the second State, which holds no registration yet
RestoreFresh ==
    /\ fresh = <<>>
    /\ fresh' = RestoredRegs(fresh, file)
    /\ restoreErr' = RestoreReturn(file)
    /\ UNCHANGED <<file, snapshotted, engineVars, nonceVars, selectVars, lockVars>>

\* a goroutine of the run (a warmup worker, a sendCall) in newRegistration
StoreNewRegistration ==
    /\ Len(regs) < MaxStore
    /\ newRegistration
    /\ UNCHANGED <<cfgVars, throughput, wg, runVars, warmVars, planVars, loopVars, calls>>
    /\ UNCHANGED <<nonceVars, persistVars, selectVars, lockVars>>

\* a sendCall goroutine in newAuthorization
StoreNewAuthorization(r) ==
    /\ Len(regs[r].auths) < MaxAuths
    /\ newAuthorization(r)
    /\ UNCHANGED <<cfgVars, throughput, wg, runVars, warmVars, planVars, loopVars, calls>>
    /\ UNCHANGED <<nonceVars, persistVars, selectVars, lockVars>>

\* a sendCall goroutine in newCertificate
StoreNewCertificate(r) ==
    /\ Len(regs[r].auths) > 0
    /\ Len(regs[r].certs) < MaxCerts
    /\ newCertificate(r)
    /\ UNCHANGED <<cfgVars, throughput, wg, runVars, warmVars, planVars, loopVars, calls>>
    /\ UNCHANGED <<nonceVars, persistVars, selectVars, lockVars>>

\* a run whose State is snapshotted and restores what was snapshotted
StoreNext ==
    \/ Snapshot
    \/ WriteFile
    \/ Restore
    \/ StoreNewRegistration
    \/ \E r \in 1..Len(regs) : StoreNewAuthorization(r)
    \/ \E r \in 1..Len(regs) : StoreNewCertificate(r)

StoreSpec == PlainInit /\ [][StoreNext]_vars

\* a run whose State is snapshotted, and a second State restoring the file
RoundTripNext ==
    \/ Snapshot
    \/ RestoreFresh
    \/ StoreNewRegistration
    \/ \E r \in 1..Len(regs) : StoreNewAuthorization(r)
    \/ \E r \in 1..Len(regs) : StoreNewCertificate(r)

RoundTripSpec == PlainInit /\ [][RoundTripNext]_vars

\* ------------------------------------------------------------------ the run

Next ==
    \/ RunBegin
    \/ \E w \in Workers : WorkerCheck(w)
    \/ \E w \in Workers : WorkerCreate(w)
    \/ WarmupJoin
    \/ RunStartChall
    \/ RunStartPlan
    \/ RunStartLoop
    \/ RunSendStop
    \/ RunWait
    \/ RunKill
    \/ RunFinish
    \/ PlanStep
    \/ LoopSelect
    \/ LoopSpawn
    \/ \E i \in CallIds : CallCap(i)
    \/ \E i \in CallIds : getReg(i)
    \/ \E i \in CallIds : CallLook(i)
    \/ \E i \in CallIds : CallAct(i)

Spec == Init /\ [][Next]_vars

\* ------------------------------------------------------------------ weightedCall on its own

SelectActions == << "newRegistration", "newAuthorization", "newCertificate",
                    "revokeCertificate" >>

\* the []probabilityProfile of the given weights, in sendCall's order; an
\* action of weight 0 is not in the list
ProfilesOf(weights) ==
    LET all == [j \in 1..Len(SelectActions) |->
                   [prob |-> weights[j], action |-> SelectActions[j]]]
        present(pp) == pp.prob > 0
    IN SelectSeq(all, present)

Setups == { ProfilesOf(weights) :
                weights \in [1..Len(SelectActions) -> 0..MaxWeight] }

SelectInit ==
    /\ InitState
    /\ maxRegs = 0
    /\ warmupRegs = 0
    /\ warmupWorkers = 1
    /\ runPlan = <<>>
    /\ throughput = BaseRate
    /\ wcSetup \in Setups
    /\ wcDraw = 0
    /\ wcResult = "none"
    /\ NoLockTasks

\* one call weightedCall(wcSetup), whose mrand.Intn(n) returns k
SelectDraw ==
    /\ wcResult = "none"
    /\ LET n == Len(Choices(wcSetup))
       IN IF n = 0
          THEN wcDraw' = 0 /\ wcResult' = weightedCall(wcSetup, 0)
          ELSE \E k \in 0..(n - 1) :
                   wcDraw' = k /\ wcResult' = weightedCall(wcSetup, k)
    /\ UNCHANGED <<wcSetup, engineVars, nonceVars, persistVars, lockVars>>

SelectNext == SelectDraw

SelectSpec == SelectInit /\ [][SelectNext]_vars

\* ------------------------------------------------------------------ the locks

\* the lock calls of the action a sendCall or a warmup worker executes:
\* newRegistration ends in addReg (s.rMu.Lock, deferred Unlock); the other
\* actions change reg.auths or reg.certs under reg.iMu.Lock
ActionLocks(action) ==
    IF action = "newRegistration"
    THEN << <<"Lock", "rMu">>, <<"Unlock", "rMu">> >>
    ELSE << <<"Lock", "iMu">>, <<"Unlock", "iMu">> >>

\* sendCall keeping s.rMu read-locked after its cap test
SendCallLocksKeepingStore(found, action) ==
    << <<"RLock", "rMu">> >>
    \o << <<"RLock", "rMu">>, <<"RUnlock", "rMu">> >>
    \o (IF found THEN << <<"RLock", "iMu">>, <<"RUnlock", "iMu">> >> ELSE <<>>)
    \o ActionLocks(action)

\* the lock calls of one sendCall, in order: the cap test, getReg, the reads
\* of the picked registration's lists, then the action
SendCallLocks(found, action) ==
    << <<"RLock", "rMu">>, <<"RUnlock", "rMu">> >>
    \o << <<"RLock", "rMu">>, <<"RUnlock", "rMu">> >>
    \o (IF found THEN << <<"RLock", "iMu">>, <<"RUnlock", "iMu">> >> ELSE <<>>)
    \o ActionLocks(action)

\* a warmup worker: a test below the target, newRegistration, and the test
\* that ends its loop
WorkerLocks ==
    << <<"RLock", "rMu">>, <<"RUnlock", "rMu">> >>
    \o ActionLocks("newRegistration")
    \o << <<"RLock", "rMu">>, <<"RUnlock", "rMu">> >>

\* one tick of warmup's progress goroutine
ReporterLocks == << <<"RLock", "rMu">>, <<"RUnlock", "rMu">> >>

\* Snapshot and Restore: s.rMu.Lock() and the deferred Unlock
SnapshotLocks == << <<"Lock", "rMu">>, <<"Unlock", "rMu">> >>
RestoreLocks == << <<"Lock", "rMu">>, <<"Unlock", "rMu">> >>

LockKinds ==
    { "worker", "reporter", "Snapshot", "Restore", "sendCall on an empty store" }
    \cup { SelectActions[j] : j \in 1..Len(SelectActions) }

\* the lock calls of a goroutine of the given kind; a sendCall that picked a
\* registration is named by the action it executes
LockProgram(kind) ==
    CASE kind = "worker" -> WorkerLocks
      [] kind = "reporter" -> ReporterLocks
      [] kind = "Snapshot" -> SnapshotLocks
      [] kind = "Restore" -> RestoreLocks
      [] kind = "sendCall on an empty store" -> SendCallLocks(FALSE, "newRegistration")
      [] kind = "none" -> <<>>
      [] OTHER -> SendCallLocks(TRUE, kind)

\* the lock call a goroutine is at, <<"end", "">> past its last
NextLockCall(t) ==
    IF lockTask[t].pc <= Len(LockProgram(lockTask[t].kind))
    THEN LockProgram(lockTask[t].kind)[lockTask[t].pc]
    ELSE <<"end", "">>

Holds(t, l) == locks[l].writer = t \/ t \in locks[l].readers

LockInit ==
    /\ InitState
    /\ maxRegs = 0
    /\ warmupRegs = 0
    /\ warmupWorkers = 1
    /\ runPlan = <<>>
    /\ throughput = BaseRate
    /\ NoSelect
    /\ locks = [l \in LockNames |-> FreeLock]
    /\ lockTask \in [LockTasks -> [kind : LockKinds, pc : {1}]]

\* RWMutex.RLock: returns when no writer holds the lock and none waits for it
LockRLock(t) ==
    /\ NextLockCall(t)[1] = "RLock"
    /\ LET l == NextLockCall(t)[2]
       IN /\ locks[l].writer = 0
          /\ locks[l].waiting = {}
          /\ locks' = [locks EXCEPT ![l].readers = @ \cup {t}]
    /\ lockTask' = [lockTask EXCEPT ![t].pc = @ + 1]
    /\ UNCHANGED <<engineVars, nonceVars, persistVars, selectVars>>

\* RWMutex.RUnlock
LockRUnlock(t) ==
    /\ NextLockCall(t)[1] = "RUnlock"
    /\ LET l == NextLockCall(t)[2]
       IN locks' = [locks EXCEPT ![l].readers = @ \ {t}]
    /\ lockTask' = [lockTask EXCEPT ![t].pc = @ + 1]
    /\ UNCHANGED <<engineVars, nonceVars, persistVars, selectVars>>

\* RWMutex.Lock is called: from now on no new reader gets the lock
LockRequest(t) ==
    /\ NextLockCall(t)[1] = "Lock"
    /\ LET l == NextLockCall(t)[2]
       IN /\ t \notin locks[l].waiting
          /\ locks' = [locks EXCEPT ![l].waiting = @ \cup {t}]
    /\ UNCHANGED <<lockTask, engineVars, nonceVars, persistVars, selectVars>>

\* RWMutex.Lock returns: the readers have left and no writer holds the lock
LockAcquire(t) ==
    /\ NextLockCall(t)[1] = "Lock"
    /\ LET l == NextLockCall(t)[2]
       IN /\ t \in locks[l].waiting
          /\ locks[l].writer = 0
          /\ locks[l].readers = {}
          /\ locks' = [locks EXCEPT ![l].waiting = @ \ {t}, ![l].writer = t]
    /\ lockTask' = [lockTask EXCEPT ![t].pc = @ + 1]
    /\ UNCHANGED <<engineVars, nonceVars, persistVars, selectVars>>

\* RWMutex.Unlock
LockUnlock(t) ==
    /\ NextLockCall(t)[1] = "Unlock"
    /\ LET l == NextLockCall(t)[2]
       IN locks' = [locks EXCEPT ![l].writer = 0]
    /\ lockTask' = [lockTask EXCEPT ![t].pc = @ + 1]
    /\ UNCHANGED <<engineVars, nonceVars, persistVars, selectVars>>

LockNext ==
    \/ \E t \in LockTasks : LockRLock(t)
    \/ \E t \in LockTasks : LockRUnlock(t)
    \/ \E t \in LockTasks : LockRequest(t)
    \/ \E t \in LockTasks : LockAcquire(t)
    \/ \E t \in LockTasks : LockUnlock(t)

LockSpec == LockInit /\ [][LockNext]_vars

\* ------------------------------------------------------------------ Run up to its first sendCall

\* Run from its call to the sending loop's go s.sendCall()
WarmupNext ==
    \/ RunBegin
    \/ \E w \in Workers : WorkerCheck(w)
    \/ \E w \in Workers : WorkerCreate(w)
    \/ WarmupJoin
    \/ RunStartChall
    \/ RunStartPlan
    \/ RunStartLoop
    \/ LoopSelect
    \/ LoopSpawn

\* the Go scheduler runs every runnable goroutine (weak fairness of the
\* steps of warmup and of its workers), and a worker that keeps calling
\* newRegistration is eventually answered with a registration (strong
\* fairness of the successful attempt)
WarmupFairness ==
    /\ \A w \in Workers : WF_vars(WorkerCheck(w))
    /\ \A w \in Workers : WF_vars(WorkerCreate(w))
    /\ \A w \in Workers : SF_vars(WorkerCreate(w) /\ regs' # regs)
    /\ WF_vars(WarmupJoin)

WarmupSpec == Init /\ [][WarmupNext]_vars /\ WarmupFairness

\* ------------------------------------------------------------------ shutdown

\* C1: once Run has sent on the stop channel, the number of sendCall
\* goroutines started never increases again.
C1_NoSpawnAfterStop == [][stopSent => spawned' = spawned]_vars

\* a sendCall goroutine that has been started and has not yet called wg.Done()
Running(i) == calls[i].pc \notin {"none", "done"}

\* C2: once wg.Wait() has returned in Run, and so when Run has returned nil,
\* no sendCall goroutine is running, and none is started any more.
C2_AllFinishedWhenStopped ==
    runPC \in {"kill", "finish", "done"} =>
        \A i \in CallIds : ~Running(i)

\* C3: with a cap maxRegs = N > 0 and a warmup target >= N, the store holds
\* exactly N registrations once warmup has returned, and never more afterwards.
C3_PopulationIsCap ==
    (maxRegs > 0 /\ warmupRegs >= maxRegs /\ runPC \notin {"idle", "warmup"})
        => Len(regs) = maxRegs

\* C6: whatever the configuration, dontRunChallSrv included, Run goes from
\* the drain to stopping the challenge server, from there to setting
\* callLatency.Stopped, and from there to its return.
C6_CleanShutdown ==
    [][ /\ (runPC = "wait" /\ runPC' # runPC) => runPC' = "kill"
        /\ (runPC = "kill" /\ runPC' # runPC) => runPC' = "finish"
        /\ (runPC = "finish" /\ runPC' # runPC) => (runPC' = "done" /\ latStopped')
      ]_vars

\* C7: when cmd.Start() fails, Run has returned the error and neither
\* executePlan nor the sending loop nor any sendCall was ever started.
C7_StartFailureAborts ==
    startErr =>
        /\ runPC = "failed"
        /\ planPC = "none"
        /\ loopPC = "none"
        /\ spawned = 0
        /\ \A i \in CallIds : calls[i].pc = "none"

\* the start failed after a warmup that filled the store
C7_Witness == startErr /\ runPC = "failed" /\ Len(regs) >= warmupRegs /\ warmupRegs > 0

\* the rates of a plan, in plan order
Rates(plan) == [i \in 1..Len(plan) |-> plan[i].Rate]

\* C8: executePlan stores the rates of the plan in plan order, each once;
\* the throughput is the rate stored last, and when the plan is exhausted
\* the goroutine ends and the throughput stays the last RatePeriod's rate.
C8_PlanInOrder ==
    /\ IsPrefix(stored, Rates(runPlan))
    /\ stored # <<>> => throughput = stored[Len(stored)]
    /\ planPC = "done" =>
           /\ stored = Rates(runPlan)
           /\ throughput = runPlan[Len(runPlan)].Rate

\* a two-period plan ran to its end while the sending loop was dispatching
C8_Witness ==
    /\ planPC = "done"
    /\ Len(stored) = 2
    /\ stored[1] # stored[2]
    /\ spawned > 0

\* ------------------------------------------------------------------ nonces

\* the nonces the Nonce() calls took out of the pool, in the order taken
RECURSIVE FromPool(_)
FromPool(h) ==
    IF h = <<>> THEN <<>>
    ELSE (IF Head(h).from = "pool" THEN <<Head(h).nonce>> ELSE <<>>)
         \o FromPool(Tail(h))

\* C4: no nonce is returned by two Nonce() calls, and a nonce a call
\* returned is not in the pool (the server issuing each nonce once).
C4_NonceHandedOnce ==
    /\ \A i, j \in 1..Len(handed) : i # j => handed[i].nonce # handed[j].nonce
    /\ \A i \in 1..Len(handed), k \in 1..Len(noncePool) :
           handed[i].nonce # noncePool[k]

\* two concurrent Nonce() calls each returned a nonce of the pool, which
\* still holds one
C4_Witness ==
    /\ Len(FromPool(handed)) >= 2
    /\ Len(noncePool) >= 1
    /\ \A t \in Takers : nonceCalls[t].path = "pool"

\* C5: the pool is FIFO: the nonces taken out of it, followed by those
\* still in it, are the nonces addNonce put in, in that order; and a Nonce()
\* call that found the pool empty makes one HEAD request and leaves the pool
\* as it is.
C5_PoolIsFIFO ==
    /\ [](FromPool(handed) \o noncePool = added)
    /\ [][\A t \in Takers :
            (nonceCalls[t].pc = "head" /\ nonceCalls'[t].pc # "head") =>
                /\ noncePool' = noncePool
                /\ nonceCalls'[t].pc = "idle"
                /\ nonceCalls'[t].probes = 1
         ]_vars

\* two nonces were added and then taken, and a call on the empty pool returned
C5_Witness ==
    /\ Len(added) >= 2
    /\ FromPool(handed) = added
    /\ \E t \in Takers :
           /\ nonceCalls[t] = [pc |-> "idle", path |-> "head", probes |-> 1]
           /\ \E i \in 1..Len(handed) : handed[i].from = "head"

\* ------------------------------------------------------------------ persistence

\* what a snapshot keeps of the registrations: key and certs, no auths
Projection(rs) ==
    [i \in 1..Len(rs) |-> [key |-> rs[i].key, auths |-> <<>>, certs |-> rs[i].certs]]

\* C9: Restore into a fresh State of the file Snapshot wrote gives one
\* registration for each one snapshotted, in the same order, with the same
\* key and the same certs, and with no auths.
C9_SnapshotRestoreRoundTrip ==
    [][(RestoreFresh /\ file # NoFile) => fresh' = Projection(snapshotted)]_vars

\* a fresh State holds the two restored registrations of a snapshot, one
\* of which had an authorization and two certificates
C9_Witness ==
    /\ Len(fresh) = 2
    /\ fresh = Projection(snapshotted)
    /\ \E i \in 1..Len(snapshotted) :
           /\ Len(snapshotted[i].certs) = 2
           /\ Len(snapshotted[i].auths) > 0
           /\ fresh[i].certs = <<1, 2>>

\* the keys of the registrations, in store order
KeysOf(rs) == [i \in 1..Len(rs) |-> rs[i].key]

\* C10: the store is append-only: each step leaves the registrations that
\* were in a store where they were and at most appends to them.
C10_StoreAppendOnly ==
    [][IsPrefix(KeysOf(regs), KeysOf(regs'))]_vars

\* Restore has appended a snapshotted registration behind those of the run
C10_Witness ==
    /\ Len(regs) = 2
    /\ Len(snapshotted) = 1
    /\ regs[2].key = regs[1].key
    /\ Len(regs[1].certs) > 0
    /\ regs[2].certs = <<>>

\* ------------------------------------------------------------------ warmup

\* C11 as stated, for every number of workers: warmup returns, and the store
\* holds at least warmupRegs registrations when the first sendCall is started.
C11_WarmupFillsForAnyWorkers ==
    /\ [](spawned > 0 => Len(regs) >= warmupRegs)
    /\ ((runPC = "warmup") ~> (runPC = "startChall"))

\* C11: warmup returns for every number of workers, and with at least one
\* worker the store holds at least warmupRegs registrations when the first
\* sendCall is started.
C11_WarmupFillsStore ==
    /\ []((warmupWorkers >= 1 /\ spawned > 0) => Len(regs) >= warmupRegs)
    /\ ((runPC = "warmup") ~> (runPC = "startChall"))

C11_Witness ==
    /\ warmupRegs = MaxTarget
    /\ warmupWorkers = MaxWorkers
    /\ spawned > 0
    /\ Len(regs) >= warmupRegs

\* C20 as stated, for every number W of workers: when warmup has returned
\* the store holds at least T and at most T + W - 1 registrations.
C20_OvershootForAnyWorkers ==
    (runPC = "startChall" /\ warmupRegs > 0) =>
        /\ Len(regs) >= warmupRegs
        /\ Len(regs) <= warmupRegs + warmupWorkers - 1

\* C20: with W >= 1 workers and a target T above the starting population,
\* the store holds at least T and at most T + W - 1 registrations when
\* warmup has returned.
C20_OvershootBounded ==
    (runPC = "startChall" /\ warmupRegs > 0 /\ warmupWorkers >= 1) =>
        /\ Len(regs) >= warmupRegs
        /\ Len(regs) <= warmupRegs + warmupWorkers - 1

C20_Witness ==
    /\ runPC = "startChall"
    /\ warmupRegs = MaxTarget
    /\ warmupWorkers = MaxWorkers
    /\ Len(regs) = warmupRegs + warmupWorkers - 1

\* ------------------------------------------------------------------ weighted selection

\* the total weight of the first j profiles of a list
RECURSIVE WeightBefore(_, _)
WeightBefore(setup, j) ==
    IF j = 0 THEN 0 ELSE WeightBefore(setup, j - 1) + setup[j].prob

\* the draws for which a list gives the action a
DrawsOf(setup, a) ==
    { k \in 0..(WeightBefore(setup, Len(setup)) - 1) : weightedCall(setup, k) = a }

\* C12: for a list of total weight n > 0 and a draw k in 0..n-1, weightedCall
\* returns the action of the profile whose cumulative weight range holds k,
\* and every action of the list is returned for as many draws as its weight.
C12_WeightedSelection ==
    wcResult \notin {"none", "nil"} =>
        /\ \E j \in 1..Len(wcSetup) :
               /\ WeightBefore(wcSetup, j - 1) <= wcDraw
               /\ wcDraw < WeightBefore(wcSetup, j)
               /\ wcResult = wcSetup[j].action
        /\ \A j \in 1..Len(wcSetup) :
               Cardinality(DrawsOf(wcSetup, wcSetup[j].action)) = wcSetup[j].prob

\* the four actions with the weights of sendCall, and a draw of 4 out of 10
C12_Witness ==
    /\ wcSetup = << [prob |-> 1, action |-> "newRegistration"],
                    [prob |-> 3, action |-> "newAuthorization"],
                    [prob |-> 4, action |-> "newCertificate"],
                    [prob |-> 2, action |-> "revokeCertificate"] >>
    /\ wcDraw = 4
    /\ wcResult = "newCertificate"

\* ------------------------------------------------------------------ eligibility

\* the candidates of a sendCall by the rules: newRegistration (weight 1) when
\* the cap test passed, newAuthorization (3) when a registration was picked,
\* newCertificate (4) when it has an authorization, revokeCertificate (2)
\* when it has a certificate
Eligible(canCreate, r) ==
    { pp \in { [prob |-> 1, action |-> "newRegistration"],
               [prob |-> 3, action |-> "newAuthorization"],
               [prob |-> 4, action |-> "newCertificate"],
               [prob |-> 2, action |-> "revokeCertificate"] } :
        \/ pp.action = "newRegistration" /\ canCreate
        \/ pp.action = "newAuthorization" /\ r # 0
        \/ pp.action = "newCertificate" /\ r # 0 /\ Len(regs[r].auths) > 0
        \/ pp.action = "revokeCertificate" /\ r # 0 /\ Len(regs[r].certs) > 0 }

C14_EmptyListIsNoOp ==
    [][\A i \in CallIds :
        (/\ calls[i].pc = "look"
         /\ calls'[i] # calls[i]
         /\ ActionList(calls[i].canCreate, calls[i].reg) = <<>>) =>
            /\ calls'[i].pc = "done"
            /\ wg' = wg - 1
            /\ regs' = regs
      ]_vars

\* ------------------------------------------------------------------ the run plan and the stop

\* C15: once Run has sent its stop and set callLatency.Stopped, executePlan
\* begins no further RatePeriod and s.throughput is not stored again.
C15_PlanEndsWithRun ==
    [][latStopped => (throughput' = throughput /\ stored' = stored
                        /\ planIdx' = planIdx)]_vars

\* ------------------------------------------------------------------ the rate

\* C19: s.throughput is positive whenever the sending loop reads it, and
\* the division of the loop's sleep never panics.
C19_ThroughputPositive ==
    /\ loopPC = "spawn" => throughput > 0
    /\ loopPC # "panic"

\* ------------------------------------------------------------------ the pool's test and pop

\* C18: Nonce() never removes a nonce from an empty pool: no call reaches
\* s.noncePool[0] on a pool of length 0.
C18_NoPopFromEmptyPool ==
    \A t \in Takers : nonceCalls[t].pc # "panic"

\* ------------------------------------------------------------------ Restore's records

\* the records of a document whose rawKey is the PKCS#1 encoding of a key
GoodRecords(content) ==
    LET good(r) == \E n \in 1..Len(KeyList) :
                       MarshalPKCS1PrivateKey(KeyList[n]) = BytesOfJSON(r.rawKey)
    IN SelectSeq(ListOfJSON(content.Registrations), good)

\* the registration a good record stands for
RegOfRecord(r) ==
    [key |-> KeyList[CHOOSE n \in 1..Len(KeyList) :
                         MarshalPKCS1PrivateKey(KeyList[n]) = BytesOfJSON(r.rawKey)],
     auths |-> <<>>,
     certs |-> ListOfJSON(r.certs)]

\* C17: Restore of a missing or undecodable file returns an error and leaves
\* the store as it was; Restore of any other file returns nil and appends,
\* in document order, the registration of every record whose key parses,
\* skipping the others.
C17_RestoreSkipsBadRecords ==
    [][Restore =>
        IF file = NoFile \/ file = Undecodable
        THEN regs' = regs /\ restoreErr' = "error"
        ELSE /\ restoreErr' = "nil"
             /\ regs' = regs \o [j \in 1..Len(GoodRecords(file)) |->
                                     RegOfRecord(GoodRecords(file)[j])]
      ]_vars

\* a document with an unparsable record between two good ones was restored
C17_Witness ==
    /\ restoreErr = "nil"
    /\ file = [Registrations |-> JSONList(<< ForeignRecord.withCert,
                                              ForeignRecord.noKey,
                                              ForeignRecord.plain >>)]
    /\ Len(regs) = 2
    /\ regs[1].key = KeyList[5] /\ regs[1].certs = <<1>>
    /\ regs[2].key = KeyList[6]

\* ------------------------------------------------------------------ lock order

\* C16: no goroutine holds s.rMu while it holds or asks for a registration's
\* iMu, none holds an iMu while it holds or asks for s.rMu, and as long as a
\* goroutine has a lock call left, one of the goroutines can take a step.
C16_LockOrderNoDeadlock ==
    /\ \A t \in LockTasks :
           /\ ~(Holds(t, "rMu") /\ Holds(t, "iMu"))
           /\ Holds(t, "rMu") => NextLockCall(t) \notin {<<"RLock", "iMu">>, <<"Lock", "iMu">>}
           /\ Holds(t, "iMu") => NextLockCall(t) \notin {<<"RLock", "rMu">>, <<"Lock", "rMu">>}
    /\ (\E t \in LockTasks : NextLockCall(t)[1] # "end") => ENABLED LockNext

\* a sendCall waits for reg.iMu's write lock while another sendCall, which
\* goes on to addReg's s.rMu.Lock, reads under reg.iMu
C16_Witness ==
    \E t, u \in LockTasks :
        /\ t # u
        /\ NextLockCall(t) = <<"Lock", "iMu">>
        /\ t \in locks["iMu"].waiting
        /\ u \in locks["iMu"].readers
        /\ lockTask[u].kind = "newRegistration"

====
